---- MODULE Spec2Model ----
(***************************************************************************)
(* Model of Scripts/fix_branch_errors.py: one run of main(), which         *)
(* resolves the branch name, rewrites InventoryUI.cs with the branch's     *)
(* list of regular-expression fixes and then checks that the dependent     *)
(* scripts exist.  File contents are strings; re.sub is modelled           *)
(* character by character.                                                 *)
(***************************************************************************)
EXTENDS Integers, Sequences, FiniteSets, TLC

VARIABLES
    pc,                \* position of the run inside main() and its callees
    branch_name,       \* main's / fix_inventory_ui_errors' branch_name
    inventoryExists,   \* os.path.exists(inventory_path)
    inventoryFile,     \* text stored in inventory_path on disk
    scriptExists,      \* os.path.exists of each entry of scripts_to_check
    content,           \* local of fix_inventory_ui_errors
    original_content,  \* local of fix_inventory_ui_errors
    fixIdx,            \* index of the next (pattern, replacement) of fixes
    scriptIdx,         \* index of the next script_path of scripts_to_check
    fixed_count,       \* local of fix_data_structure_consistency
    inventory_ret,     \* value returned by fix_inventory_ui_errors
    consistency_ret,   \* value returned by fix_data_structure_consistency
    exit_code,         \* value returned by main, passed to sys.exit
    initial,           \* history: the files as they were when the run began
    writes,            \* history: number of open(inventory_path, 'w') so far
    stages             \* history: the stages entered so far, in order

vars == <<pc, branch_name, inventoryExists, inventoryFile, scriptExists,
          content, original_content, fixIdx, scriptIdx, fixed_count,
          inventory_ret, consistency_ret, exit_code, initial, writes, stages>>

(***************************************************************************)
(* Bounds of the model.                                                    *)
(***************************************************************************)
\* largest number of fragments concatenated into an initial file content
MaxFrags == 2

(***************************************************************************)
(* Program constants.                                                      *)
(***************************************************************************)
FeatureBranch == "feature/battle-gate-system"
MasterBranch == "master"

\* value of the not yet assigned branch_name and return values
NoBranch == "<unassigned>"
NoValue == "none"

\* the entries of scripts_to_check, in list order
scripts_to_check ==
    << "Assets/Scripts/BattleSystem/AttachmentSystem.cs",
       "Assets/Scripts/BattleSystem/WeaponData.cs",
       "Assets/Scripts/BattleSystem/UI/TitleScreenUI.cs",
       "Assets/Scripts/BattleSystem/UI/StageSelectionUI.cs" >>

NumScripts == Len(scripts_to_check)

\* The list fixes of the feature branch.  Every pattern is a literal text
\* (the escaped characters \. \( \) stand for themselves), followed in the
\* first pattern by the group (\w+); the replacement is a literal text,
\* followed in the first replacement by the reference \1.
fixes ==
    << [lit |-> "WeaponAttribute.", word |-> TRUE, repl |-> "WeaponType."],
       [lit |-> "weapon.attackPower", word |-> FALSE,
        repl |-> "weapon.basePower"],
       [lit |-> "weapon.weaponAttribute", word |-> FALSE,
        repl |-> "weapon.weaponType"],
       [lit |-> "attachment.id", word |-> FALSE,
        repl |-> "attachment.attachmentId"],
       [lit |-> "attachment.name", word |-> FALSE,
        repl |-> "attachment.attachmentName"],
       [lit |-> "ScriptableObject.CreateInstance<WeaponData>()",
        word |-> FALSE, repl |-> "new WeaponData()"],
       [lit |-> "weapon.cooldownTime", word |-> FALSE,
        repl |-> "weapon.cooldownTurns"] >>

NumFixes == Len(fixes)

(***************************************************************************)
(* re.sub for the patterns above.                                          *)
(***************************************************************************)
\* the characters \w matches among those that occur in the modelled texts
WordChars ==
    {"a","b","c","d","e","f","g","h","i","j","k","l","m","n","o","p","q",
     "r","s","t","u","v","w","x","y","z",
     "A","B","C","D","E","F","G","H","I","J","K","L","M","N","O","P","Q",
     "R","S","T","U","V","W","X","Y","Z",
     "0","1","2","3","4","5","6","7","8","9","_"}

CharAt(s, i) == SubSeq(s, i, i)

\* least element of a non-empty set of positions
First(S) == CHOOSE j \in S : \A k \in S : j <= k

\* first position at or after i that holds no word character (greedy \w+)
WordEnd(s, i) ==
    First({j \in i..(Len(s) + 1) :
              j = Len(s) + 1 \/ CharAt(s, j) \notin WordChars})

\* position just after the match of fix f that starts at i, or 0 if the
\* pattern does not match at i
MatchEnd(f, s, i) ==
    LET e == i + Len(f.lit)
    IN  IF e - 1 <= Len(s) /\ SubSeq(s, i, e - 1) = f.lit
        THEN IF f.word
             THEN (IF WordEnd(s, e) > e THEN WordEnd(s, e) ELSE 0)
             ELSE e
        ELSE 0

\* the replacement of the match s[i .. e-1] of fix f
Expand(f, s, i, e) ==
    IF f.word THEN f.repl \o SubSeq(s, i + Len(f.lit), e - 1) ELSE f.repl

\* re.sub on s[i ..]: the leftmost match at or after i is replaced and the
\* scan resumes just after it; text outside the matches is copied
RECURSIVE SubFrom(_, _, _)
SubFrom(f, s, i) ==
    LET M == {j \in i..Len(s) : MatchEnd(f, s, j) # 0}
    IN  IF M = {} THEN SubSeq(s, i, Len(s))
        ELSE LET j == First(M)
                 e == MatchEnd(f, s, j)
             IN  SubSeq(s, i, j - 1) \o Expand(f, s, j, e) \o SubFrom(f, s, e)

re_sub(f, s) == SubFrom(f, s, 1)

\* the whole loop "for pattern, replacement in fixes" from fix number k on
RECURSIVE ApplyFixesFrom(_, _)
ApplyFixesFrom(k, s) ==
    IF k > NumFixes THEN s ELSE ApplyFixesFrom(k + 1, re_sub(fixes[k], s))

ApplyFixes(s) == ApplyFixesFrom(1, s)

(***************************************************************************)
(* Inputs of a run.                                                        *)
(***************************************************************************)
\* pieces of C# text the initial content of InventoryUI.cs is built from
Fragments ==
    { "WeaponAttribute.", "WeaponAttribute.Fire", "weapon.attackPower",
      "weapon.weaponAttribute", "attachment.id", "attachment.name",
      "ScriptableObject.CreateInstance<WeaponData>()",
      "weapon.cooldownTime", ";" }

RECURSIVE Texts(_)
Texts(n) ==
    IF n = 0 THEN {""}
    ELSE LET P == Texts(n - 1)
         IN  P \cup {p \o f : p \in P, f \in Fragments}

Contents == Texts(MaxFrags)

\* sys.argv[1] when it is given
ArgBranches == {FeatureBranch, MasterBranch, "develop"}
\* stdout of "git branch --show-current", stripped; empty outside a branch
GitBranches == {FeatureBranch, MasterBranch, ""}

Init ==
    /\ pc = "main"
    /\ branch_name = NoBranch
    /\ inventoryExists \in BOOLEAN
    /\ inventoryFile \in (IF inventoryExists THEN Contents ELSE {""})
    /\ scriptExists \in [1..NumScripts -> BOOLEAN]
    /\ content = ""
    /\ original_content = ""
    /\ fixIdx = 1
    /\ scriptIdx = 1
    /\ fixed_count = 0
    /\ inventory_ret = NoValue
    /\ consistency_ret = NoValue
    /\ exit_code = -1   \* main has not returned
    /\ initial = [exists |-> inventoryExists, file |-> inventoryFile,
                  scripts |-> scriptExists]
    /\ writes = 0
    /\ stages = << >>

(***************************************************************************)
(* main, up to the call of fix_inventory_ui_errors.                        *)
(***************************************************************************)
\* branch_name = sys.argv[1] if len(sys.argv) > 1 else get_current_branch()
ResolveBranch ==
    /\ pc = "main"
    /\ \/ \E b \in ArgBranches : branch_name' = b
       \/ \E b \in GitBranches : branch_name' = b
    /\ stages' = Append(stages, "ResolveBranch")
    /\ pc' = "inv_exists"
    /\ UNCHANGED <<initial, inventoryExists, inventoryFile, scriptExists,
                   content,
                   original_content, fixIdx, scriptIdx, fixed_count,
                   inventory_ret, consistency_ret, exit_code, writes>>

(***************************************************************************)
(* fix_inventory_ui_errors(branch_name).                                   *)
(***************************************************************************)
\* CheckInventoryExists without the test of os.path.exists
CheckInventoryExists_Skipped ==
    /\ pc = "inv_exists"
    /\ pc' = "inv_read"
    /\ UNCHANGED <<initial, branch_name, inventoryExists, inventoryFile,
                   scriptExists, content, original_content, fixIdx,
                   scriptIdx, fixed_count, inventory_ret, consistency_ret,
                   exit_code, writes, stages>>

\* if not os.path.exists(inventory_path): return False
CheckInventoryExists ==
    /\ pc = "inv_exists"
    /\ IF ~inventoryExists
       THEN /\ inventory_ret' = "False"
            /\ stages' = Append(stages, "RewriteFailed")
            /\ pc' = "main_inventory"
       ELSE /\ pc' = "inv_read"
            /\ UNCHANGED <<inventory_ret, stages>>
    /\ UNCHANGED <<initial, branch_name, inventoryExists, inventoryFile,
                   scriptExists,
                   content, original_content, fixIdx, scriptIdx, fixed_count,
                   consistency_ret, exit_code, writes>>

\* content = f.read(); original_content = content
ReadInventory ==
    /\ pc = "inv_read"
    /\ content' = inventoryFile
    /\ original_content' = inventoryFile
    /\ pc' = "inv_select"
    /\ UNCHANGED <<initial, branch_name, inventoryExists, inventoryFile,
                   scriptExists,
                   fixIdx, scriptIdx, fixed_count, inventory_ret,
                   consistency_ret, exit_code, writes, stages>>

\* SelectFixes with an else branch that returns True
SelectFixes_UnknownOk ==
    /\ pc = "inv_select"
    /\ IF branch_name = FeatureBranch
       THEN /\ stages' = Append(stages, "Rewrite")
            /\ pc' = "inv_apply"
            /\ UNCHANGED inventory_ret
       ELSE /\ inventory_ret' = "True"
            /\ stages' = Append(stages, "SkipRewrite")
            /\ pc' = "main_inventory"
    /\ UNCHANGED <<initial, branch_name, inventoryExists, inventoryFile,
                   scriptExists, content, original_content, fixIdx,
                   scriptIdx, fixed_count, consistency_ret, exit_code,
                   writes>>

\* the if / elif / else on branch_name
SelectFixes ==
    /\ pc = "inv_select"
    /\ IF branch_name = FeatureBranch
       THEN /\ stages' = Append(stages, "Rewrite")
            /\ pc' = "inv_apply"
            /\ UNCHANGED inventory_ret
       ELSE IF branch_name = MasterBranch
       THEN /\ inventory_ret' = "True"
            /\ stages' = Append(stages, "SkipRewrite")
            /\ pc' = "main_inventory"
       ELSE /\ inventory_ret' = "False"
            /\ stages' = Append(stages, "RewriteFailed")
            /\ pc' = "main_inventory"
    /\ UNCHANGED <<initial, branch_name, inventoryExists, inventoryFile,
                   scriptExists,
                   content, original_content, fixIdx, scriptIdx, fixed_count,
                   consistency_ret, exit_code, writes>>

\* one iteration of: for pattern, replacement in fixes:
\*                       content = re.sub(pattern, replacement, content)
ApplyFix ==
    /\ pc = "inv_apply"
    /\ fixIdx <= NumFixes
    /\ content' = re_sub(fixes[fixIdx], content)
    /\ fixIdx' = fixIdx + 1
    /\ pc' = IF fixIdx = NumFixes THEN "inv_compare" ELSE "inv_apply"
    /\ UNCHANGED <<initial, branch_name, inventoryExists, inventoryFile,
                   scriptExists,
                   original_content, scriptIdx, fixed_count, inventory_ret,
                   consistency_ret, exit_code, writes, stages>>

\* NeedsWrite that asks for a write whatever the contents
NeedsWrite_Always(new, old) == TRUE

\* the test of: if content != original_content
NeedsWrite(new, old) == new # old

\* if content != original_content: write content, return True
\* else: return True
WriteInventory ==
    /\ pc = "inv_compare"
    /\ IF NeedsWrite(content, original_content)
       THEN /\ inventoryFile' = content
            /\ writes' = writes + 1
       ELSE UNCHANGED <<inventoryFile, writes>>
    /\ inventory_ret' = "True"
    /\ pc' = "main_inventory"
    /\ UNCHANGED <<initial, branch_name, inventoryExists, scriptExists, content,
                   original_content, fixIdx, scriptIdx, fixed_count,
                   consistency_ret, exit_code, stages>>

(***************************************************************************)
(* main, between the two calls.                                            *)
(***************************************************************************)
\* AfterInventory that goes on to the consistency check whatever was returned
AfterInventory_NoShortCircuit ==
    /\ pc = "main_inventory"
    /\ stages' = Append(stages, "CheckConsistency")
    /\ pc' = "cons_loop"
    /\ UNCHANGED <<initial, branch_name, inventoryExists, inventoryFile,
                   scriptExists, content, original_content, fixIdx,
                   scriptIdx, fixed_count, inventory_ret, consistency_ret,
                   exit_code, writes>>

\* if fix_inventory_ui_errors(branch_name): ... else: return 1
\* followed by the call of fix_data_structure_consistency
AfterInventory ==
    /\ pc = "main_inventory"
    /\ IF inventory_ret = "True"
       THEN /\ stages' = Append(stages, "CheckConsistency")
            /\ pc' = "cons_loop"
            /\ UNCHANGED exit_code
       ELSE /\ exit_code' = 1
            /\ stages' = Append(stages, "Fail")
            /\ pc' = "exit"
    /\ UNCHANGED <<initial, branch_name, inventoryExists, inventoryFile,
                   scriptExists,
                   content, original_content, fixIdx, scriptIdx, fixed_count,
                   inventory_ret, consistency_ret, writes>>

(***************************************************************************)
(* fix_data_structure_consistency().                                       *)
(***************************************************************************)
\* CheckScript that creates the script it finds missing
CheckScript_Creates ==
    /\ pc = "cons_loop"
    /\ scriptIdx <= NumScripts
    /\ fixed_count' = fixed_count + 1
    /\ scriptExists' = [scriptExists EXCEPT ![scriptIdx] = TRUE]
    /\ scriptIdx' = scriptIdx + 1
    /\ pc' = IF scriptIdx = NumScripts THEN "cons_return" ELSE "cons_loop"
    /\ UNCHANGED <<initial, branch_name, inventoryExists, inventoryFile,
                   content, original_content, fixIdx, inventory_ret,
                   consistency_ret, exit_code, writes, stages>>

\* one iteration of: for script_path in scripts_to_check:
\*                       if os.path.exists(script_path): fixed_count += 1
CheckScript ==
    /\ pc = "cons_loop"
    /\ scriptIdx <= NumScripts
    /\ fixed_count' = IF scriptExists[scriptIdx] THEN fixed_count + 1
                      ELSE fixed_count
    /\ scriptIdx' = scriptIdx + 1
    /\ pc' = IF scriptIdx = NumScripts THEN "cons_return" ELSE "cons_loop"
    /\ UNCHANGED <<initial, branch_name, inventoryExists, inventoryFile,
                   scriptExists,
                   content, original_content, fixIdx, inventory_ret,
                   consistency_ret, exit_code, writes, stages>>

\* Aggregate that asks for every script
Aggregate_All(count) == count = NumScripts

\* the value of: fixed_count > 0
Aggregate(count) == count > 0

\* return fixed_count > 0
ReturnConsistency ==
    /\ pc = "cons_return"
    /\ consistency_ret' = IF Aggregate(fixed_count) THEN "True" ELSE "False"
    /\ pc' = "main_consistency"
    /\ UNCHANGED <<initial, branch_name, inventoryExists, inventoryFile,
                   scriptExists,
                   content, original_content, fixIdx, scriptIdx, fixed_count,
                   inventory_ret, exit_code, writes, stages>>

(***************************************************************************)
(* main, after fix_data_structure_consistency.                             *)
(***************************************************************************)
\* AfterConsistency that returns 0 whatever the check returned
AfterConsistency_Returns0 ==
    /\ pc = "main_consistency"
    /\ exit_code' = 0
    /\ stages' = Append(stages, "Succeed")
    /\ pc' = "exit"
    /\ UNCHANGED <<initial, branch_name, inventoryExists, inventoryFile,
                   scriptExists, content, original_content, fixIdx,
                   scriptIdx, fixed_count, inventory_ret, consistency_ret,
                   writes>>

\* if fix_data_structure_consistency(): ... else: return 1
\* return 0
AfterConsistency ==
    /\ pc = "main_consistency"
    /\ IF consistency_ret = "True"
       THEN /\ exit_code' = 0
            /\ stages' = Append(stages, "Succeed")
       ELSE /\ exit_code' = 1
            /\ stages' = Append(stages, "Fail")
    /\ pc' = "exit"
    /\ UNCHANGED <<initial, branch_name, inventoryExists, inventoryFile,
                   scriptExists,
                   content, original_content, fixIdx, scriptIdx, fixed_count,
                   inventory_ret, consistency_ret, writes>>

Next ==
    \/ ResolveBranch
    \/ CheckInventoryExists
    \/ ReadInventory
    \/ SelectFixes
    \/ ApplyFix
    \/ WriteInventory
    \/ AfterInventory
    \/ CheckScript
    \/ ReturnConsistency
    \/ AfterConsistency

Spec == Init /\ [][Next]_vars

\* the run is synchronous and single-threaded: every step that can be taken
\* is taken
FairSpec == Spec /\ WF_vars(Next)

TypeOK ==
    /\ pc \in {"main", "inv_exists", "inv_read", "inv_select", "inv_apply",
               "inv_compare", "main_inventory", "cons_loop", "cons_return",
               "main_consistency", "exit"}
    /\ inventoryExists \in BOOLEAN
    /\ scriptExists \in [1..NumScripts -> BOOLEAN]
    /\ fixIdx \in 1..(NumFixes + 1)
    /\ scriptIdx \in 1..(NumScripts + 1)
    /\ fixed_count \in 0..NumScripts
    /\ inventory_ret \in {NoValue, "True", "False"}
    /\ consistency_ret \in {NoValue, "True", "False"}
    /\ exit_code \in {-1, 0, 1}
    /\ writes \in 0..1

(***************************************************************************)
(* Vocabulary of the properties.                                           *)
(***************************************************************************)
\* fix_inventory_ui_errors has returned
RewriteReturned ==
    pc \in {"main_inventory", "cons_loop", "cons_return", "main_consistency",
            "exit"}

\* fix_data_structure_consistency has returned
ConsistencyReturned == consistency_ret # NoValue

\* branch_name is resolved and is neither of the two registered branches
UnknownBranch == branch_name \notin {NoBranch, FeatureBranch, MasterBranch}

StageSet == {stages[i] : i \in 1..Len(stages)}

ExistingScripts == {i \in 1..NumScripts : scriptExists[i]}

\* the complete runs of the stage machine
AllowedRuns ==
    { <<"ResolveBranch", "Rewrite", "CheckConsistency", "Succeed">>,
      <<"ResolveBranch", "Rewrite", "CheckConsistency", "Fail">>,
      <<"ResolveBranch", "SkipRewrite", "CheckConsistency", "Succeed">>,
      <<"ResolveBranch", "SkipRewrite", "CheckConsistency", "Fail">>,
      <<"ResolveBranch", "RewriteFailed", "Fail">> }

(***************************************************************************)
(* Properties.                                                             *)
(***************************************************************************)
\* C1: the seven fixes are idempotent: once the loop over fixes has run,
\* running all the fixes again on its result changes nothing.
C1_Idempotent ==
    pc = "inv_compare" => ApplyFixes(content) = content

\* C2: main returns 0 exactly when fix_inventory_ui_errors returned True
\* (fixes applied or rewrite skipped) and fix_data_structure_consistency
\* returned True; every other run returns a non-zero code.
C2_ExitCode ==
    pc = "exit" =>
        /\ exit_code \in {0, 1}
        /\ exit_code = 0 <=>
              (inventory_ret = "True" /\ consistency_ret = "True")

C2_Witness ==
    /\ pc = "exit"
    /\ exit_code = 0
    /\ writes = 1

\* C3: on a branch that is neither the feature branch nor master (the empty
\* name included) the rewrite stage returns False, the target file keeps its
\* content and the run ends with a non-zero exit code.
C3_UnknownBranch ==
    UnknownBranch =>
        /\ inventoryFile = initial.file
        /\ inventoryExists = initial.exists
        /\ writes = 0
        /\ RewriteReturned => inventory_ret = "False"
        /\ pc = "exit" => exit_code # 0

C3_Witness ==
    /\ pc = "exit"
    /\ branch_name = ""
    /\ initial.exists
    /\ initial.file # ""

\* C4: on master, whatever the files, the rewrite stage returns True without
\* touching the target file and the run goes on to the consistency check.
C4_Canonical ==
    branch_name = MasterBranch =>
        /\ inventoryFile = initial.file
        /\ inventoryExists = initial.exists
        /\ writes = 0
        /\ RewriteReturned => inventory_ret = "True"
        /\ pc = "exit" => "CheckConsistency" \in StageSet

\* C5: when the target file is missing at the start, then on every branch
\* the rewrite stage returns False before any fix is applied, the file is
\* not created, the consistency check is not run and the exit code is
\* non-zero.
C5_TargetNotFound ==
    ~initial.exists =>
        /\ ~inventoryExists
        /\ writes = 0
        /\ fixIdx = 1
        /\ scriptIdx = 1
        /\ consistency_ret = NoValue
        /\ pc \in {"main", "inv_exists", "main_inventory", "exit"}
        /\ RewriteReturned => inventory_ret = "False"
        /\ pc = "exit" => exit_code # 0

C5_Witness ==
    /\ pc = "exit"
    /\ ~initial.exists
    /\ branch_name = FeatureBranch

\* C6: on the feature branch with an existing target file, the file is
\* written exactly when the content after all the fixes differs from the
\* content read; otherwise nothing is written and the file keeps its
\* content; either way the stage returns True.
C6_WriteOnlyOnChange ==
    (branch_name = FeatureBranch /\ initial.exists /\ RewriteReturned) =>
        /\ inventory_ret = "True"
        /\ writes \in {0, 1}
        /\ writes = 1 <=> ApplyFixes(initial.file) # initial.file
        /\ writes = 0 => inventoryFile = initial.file
        /\ inventoryFile = ApplyFixes(initial.file)

C6_Witness ==
    /\ pc = "exit"
    /\ branch_name = FeatureBranch
    /\ initial.exists
    /\ initial.file # ""
    /\ writes = 0
    /\ inventory_ret = "True"

\* C7: the consistency check returns True only if all the dependent scripts
\* exist; if one is missing the run ends with a non-zero exit code.
C7_AllMustExist ==
    /\ consistency_ret = "True" => ExistingScripts = 1..NumScripts
    /\ (pc = "exit" /\ ExistingScripts # 1..NumScripts) => exit_code # 0

\* C8: the dependent scripts exist after every step exactly as they did at
\* the start, the target file is written at most once, and it keeps its
\* content unless it is written.
C8_Frame ==
    /\ scriptExists = initial.scripts
    /\ inventoryExists = initial.exists
    /\ writes \in {0, 1}
    /\ writes = 0 => inventoryFile = initial.file

C8_Witness ==
    /\ pc = "exit"
    /\ writes = 1
    /\ consistency_ret = "True"
    /\ ExistingScripts # 1..NumScripts

\* C9: fix_data_structure_consistency visits the four scripts in list order,
\* counts those that exist and returns True exactly when at least one
\* exists.
C9_AnyPolicy ==
    /\ pc = "cons_loop" =>
          fixed_count =
              Cardinality({i \in ExistingScripts : i < scriptIdx})
    /\ (pc = "cons_return" \/ ConsistencyReturned) =>
          /\ scriptIdx = NumScripts + 1
          /\ fixed_count = Cardinality(ExistingScripts)
    /\ ConsistencyReturned =>
          (consistency_ret = "True" <=> ExistingScripts # {})

C9_Witness ==
    /\ pc = "exit"
    /\ consistency_ret = "True"
    /\ Cardinality(ExistingScripts) = 1

\* the stages entered so far begin one of the allowed runs, the consistency
\* check is entered only after the rewrite stage returned True, and the run
\* is over exactly when a terminal stage was entered
StagesInOrder ==
    /\ \E r \in AllowedRuns :
          /\ Len(stages) <= Len(r)
          /\ stages = SubSeq(r, 1, Len(stages))
    /\ "CheckConsistency" \in StageSet => inventory_ret = "True"
    /\ inventory_ret = "False" =>
          (scriptIdx = 1 /\ fixed_count = 0 /\ ~ConsistencyReturned)
    /\ pc = "exit" <=> (StageSet \cap {"Succeed", "Fail"} # {})
    /\ pc = "exit" => (stages \in AllowedRuns /\
                       ("Succeed" \in StageSet <=> exit_code = 0))

\* C10: the stages of every run occur in the order ResolveBranch, rewrite
\* stage, CheckConsistency, terminal stage; the consistency check starts
\* only after a successful rewrite stage; no stage runs twice; every run
\* ends in exactly one of Succeed and Fail.
C10_StageOrder ==
    /\ []StagesInOrder
    /\ <>[](pc = "exit")

C10_Witness ==
    /\ pc = "exit"
    /\ stages = <<"ResolveBranch", "RewriteFailed", "Fail">>
    /\ initial.exists

====
